---------------------------- MODULE Spec2Model ----------------------------
(***************************************************************************)
(* A model of orderstamp.ts: order stamps are strings, here sequences of   *)
(* UTF-16 code units, compared as JavaScript compares strings.             *)
(*                                                                         *)
(* Math.random() is an input: a call returns k / RandDenom for some        *)
(* k in 0 .. RandDenom-1, so that Math.floor(Math.random() * n) is         *)
(* (k * n) \div RandDenom.  A call of between or from draws its suffix     *)
(* from a stream of RANDOM_SUFFIX_LEN such values of which the first       *)
(* FreeDraws are free and the later ones repeat the last free one.         *)
(***************************************************************************)
EXTENDS Integers, Sequences, FiniteSets

VARIABLES
    prev,    \* first argument of the between call under way
    next,    \* second argument of the between call under way
    ret,     \* per caller: what its between call did
    list,    \* the caller's ordered list of stamps (README, How It Works)
    rnd,     \* a randomInt call: its arguments and its result
    codec,   \* ELEN.encode, as far as it has been called: value -> string
    now,     \* performance.now()
    calls    \* the stamps made by start(), end() and from(), in call order

vars == <<prev, next, ret, list, rnd, codec, now, calls>>

---------------------------------------------------------------------------
(* Program constants *)

CHAR_CODE_MIN == 1

CHAR_CODE_MAX == 254

RANDOM_SUFFIX_LEN == 16

(* Number.NaN, which charCodeAt returns past the end of a string, stands   *)
(* as an integer that is no code unit and no argument or result of         *)
(* randomInt in this model.                                                *)
NaN == -65536

---------------------------------------------------------------------------
(* Bounds *)

MaxLen == 2        \* longest input stamp

RandDenom == 3     \* Math.random() ranges over k / RandDenom

FreeDraws == 1     \* free leading draws of a suffix stream

MaxItems == 4      \* longest list

RandRange == 4     \* randomInt is called on -RandRange .. RandRange

MaxTime == 2       \* performance.now() ranges over 1 .. MaxTime

MaxCalls == 2      \* start/end/from calls recorded

MaxPad == 1        \* a long stamp exceeds RANDOM_SUFFIX_LEN by up to MaxPad

EncLen == 2        \* longest string ELEN.encode returns

InputCodes == {CHAR_CODE_MIN, CHAR_CODE_MIN + 1, CHAR_CODE_MAX - 1}

EncCodes == {CHAR_CODE_MIN, CHAR_CODE_MIN + 1}

Callers == {1, 2}

Draws == 0 .. (RandDenom - 1)

StringsOver(codes, n) == UNION {[1..k -> codes] : k \in 0..n}

Stamps == StringsOver(InputCodes, MaxLen)

(* The suffix streams: sequences of RANDOM_SUFFIX_LEN draws. *)
RandomStreams ==
    {[j \in 1..RANDOM_SUFFIX_LEN |->
          IF j <= FreeDraws THEN f[j] ELSE f[FreeDraws]] :
        f \in [1..FreeDraws -> Draws]}

---------------------------------------------------------------------------
(* JavaScript primitives used by the code *)

(* s.charCodeAt(i), i counted from 0 *)
charCodeAt(s, i) == IF i < Len(s) THEN s[i + 1] ELSE NaN

(* String.fromCharCode(c): ToUint16, which maps NaN to 0 *)
fromCharCode(c) == IF c = NaN THEN <<0>> ELSE <<c % 65536>>

RECURSIVE CommonPrefixFrom(_, _, _, _)
CommonPrefixFrom(str1, str2, end, len) ==
    IF end < len /\ str1[end + 1] = str2[end + 1]
    THEN CommonPrefixFrom(str1, str2, end + 1, len)
    ELSE end

commonPrefixLen(str1, str2) ==
    LET len == IF Len(str1) < Len(str2) THEN Len(str1) ELSE Len(str2)
    IN  CommonPrefixFrom(str1, str2, 0, len)

(* a < b on strings: code unit by code unit, a proper prefix first *)
Less(a, b) ==
    LET n == commonPrefixLen(a, b)
    IN  IF n = Len(a) THEN n < Len(b)
        ELSE IF n = Len(b) THEN FALSE
        ELSE a[n + 1] < b[n + 1]

(* Math.round in place of Math.floor.  (Math.ceil(min) and Math.floor(max)  *)
(* leave integers as they are.)                                            *)
randomIntRound(min, max, r) ==
    IF min = NaN \/ max = NaN THEN NaN
    ELSE IF min = max THEN min
    ELSE ((2 * r * (max - min) + RandDenom) \div (2 * RandDenom)) + min

(* randomInt(min, max) when Math.random() returns r / RandDenom *)
randomInt(min, max, r) ==
    IF min = NaN \/ max = NaN THEN NaN
    ELSE IF min = max THEN min
    ELSE ((r * (max - min)) \div RandDenom) + min

(* the loop stops one character early *)
RandomKeyShort(stream) ==
    [j \in 1..(RANDOM_SUFFIX_LEN - 1) |->
        fromCharCode(randomInt(CHAR_CODE_MIN, CHAR_CODE_MAX, stream[j]))[1]]

(* the loop appending RANDOM_SUFFIX_LEN random characters *)
RandomKey(stream) ==
    [j \in 1..RANDOM_SUFFIX_LEN |->
        fromCharCode(randomInt(CHAR_CODE_MIN, CHAR_CODE_MAX, stream[j]))[1]]

---------------------------------------------------------------------------
(* between *)

(* compares lengths in place of the strings *)
ThrowsOnSameLength(p, n) == Len(p) = Len(n)

(* the sanity check: prev === next *)
Throws(p, n) == p = n

(* the search of prev never finds a character to exceed *)
ScanPrevSkipped(p, i, r) == <<>>

(* the search of prev from i to its end *)
RECURSIVE ScanPrev(_, _, _)
ScanPrev(p, i, r) ==
    IF i < Len(p)
    THEN LET charCode == charCodeAt(p, i)
         IN  IF charCode < CHAR_CODE_MAX
             THEN fromCharCode(randomInt(charCode + 1, CHAR_CODE_MAX, r))
             ELSE fromCharCode(charCode) \o ScanPrev(p, i + 1, r)
    ELSE <<>>

(* the random character appended after the shared prefix of p < n *)
DivergentChar(p, n, r0) ==
    LET prefixLen == commonPrefixLen(p, n)
        minChar == IF prefixLen < Len(p)
                   THEN charCodeAt(p, prefixLen)
                   ELSE charCodeAt(p, 0)
        maxChar == IF prefixLen > 0
                   THEN charCodeAt(n, prefixLen)
                   ELSE charCodeAt(n, 0)
    IN  fromCharCode(randomInt(minChar, maxChar, r0))

(* between up to the random suffix; r0 and r1 are the draws of the two     *)
(* randomInt calls                                                         *)
BetweenBody(p0, n0, r0, r1) ==
    LET swap == Less(n0, p0)
        p == IF swap THEN n0 ELSE p0
        n == IF swap THEN p0 ELSE n0
        prefixLen == commonPrefixLen(p, n)
    IN  SubSeq(p, 1, prefixLen)
          \o DivergentChar(p, n, r0)
          \o ScanPrev(p, prefixLen + 1, r1)

(* the character the search of prev draws, if it draws one *)
RECURSIVE ScanDrawn(_, _, _)
ScanDrawn(p, i, r) ==
    IF i < Len(p)
    THEN LET charCode == charCodeAt(p, i)
         IN  IF charCode < CHAR_CODE_MAX
             THEN fromCharCode(randomInt(charCode + 1, CHAR_CODE_MAX, r))
             ELSE ScanDrawn(p, i + 1, r)
    ELSE <<>>

(* the characters that the randomInt calls of one between call return, in  *)
(* call order                                                              *)
DrawnChars(p0, n0, r0, r1, stream) ==
    LET swap == Less(n0, p0)
        p == IF swap THEN n0 ELSE p0
        n == IF swap THEN p0 ELSE n0
    IN  DivergentChar(p, n, r0)
          \o ScanDrawn(p, commonPrefixLen(p, n) + 1, r1)
          \o RandomKey(stream)

(* returns before the suffix loop *)
betweenNoSuffix(p0, n0, r0, r1, stream) == BetweenBody(p0, n0, r0, r1)

between(p0, n0, r0, r1, stream) ==
    BetweenBody(p0, n0, r0, r1) \o RandomKey(stream)

Idle == [status |-> "idle", result |-> <<>>, suffix |-> <<>>, drawn |-> <<>>]

(* Caller c calls between(prev, next). *)
Between(c) ==
    /\ ret[c].status = "idle"
    /\ \E r0 \in Draws, r1 \in Draws, stream \in RandomStreams :
         ret' = [ret EXCEPT ![c] =
                   IF Throws(prev, next)
                   THEN [status |-> "thrown", result |-> <<>>,
                         suffix |-> <<>>, drawn |-> <<>>]
                   ELSE [status |-> "returned",
                         result |-> between(prev, next, r0, r1, stream),
                         suffix |-> RandomKey(stream),
                         drawn |-> DrawnChars(prev, next, r0, r1, stream)]]
    /\ UNCHANGED <<prev, next, list, rnd, codec, now, calls>>

NoRnd == [pc |-> "idle", min |-> 0, max |-> 0, result |-> 0]

InitOthers ==
    /\ list = <<>>
    /\ rnd = NoRnd
    /\ codec = <<>>
    /\ now = 1
    /\ calls = <<>>

InitBetween ==
    /\ prev \in Stamps
    /\ next \in Stamps
    /\ ret = [c \in Callers |-> Idle]
    /\ InitOthers

NextBetween == Between(1)

SpecBetween == InitBetween /\ [][NextBetween]_vars

---------------------------------------------------------------------------
(* Claims about one between call *)

Valid(s) == \A i \in 1..Len(s) : CHAR_CODE_MIN <= s[i] /\ s[i] < CHAR_CODE_MAX

ValidStamp(s) == Len(s) > 0 /\ Valid(s)

Lo == IF Less(next, prev) THEN next ELSE prev

Hi == IF Less(next, prev) THEN prev ELSE next

IsStrictPrefix(a, b) == Len(a) < Len(b) /\ commonPrefixLen(a, b) = Len(a)

(* C1: for distinct non-empty stamps with every code in [1, 254), given in *)
(* either order, between returns a string strictly between the smaller     *)
(* and the larger one, whatever is drawn.                                  *)
C1_StrictlyBetween ==
    (ValidStamp(prev) /\ ValidStamp(next) /\ prev # next
        /\ ret[1].status # "idle")
    => /\ ret[1].status = "returned"
       /\ Less(Lo, ret[1].result)
       /\ Less(ret[1].result, Hi)

(* C3: when prev is a non-empty strict prefix of next, between(prev, next) *)
(* returns r with prev < r < next, whatever is drawn.                      *)
C3_PrefixCaseBetween ==
    (ValidStamp(prev) /\ Valid(next) /\ IsStrictPrefix(prev, next)
        /\ ret[1].status = "returned")
    => /\ Less(prev, ret[1].result)
       /\ Less(ret[1].result, next)

(* C4: between throws if and only if prev = next; for distinct arguments   *)
(* it returns a stamp, for identical ones it returns nothing.              *)
C4_ThrowsIffIdentical ==
    ret[1].status # "idle"
    => /\ (ret[1].status = "thrown") <=> (prev = next)
       /\ (ret[1].status = "returned") <=> (prev # next)
       /\ ret[1].status = "returned" => Len(ret[1].result) > 0
       /\ ret[1].status = "thrown" => ret[1].result = <<>>

C4_Witness ==
    /\ ret[1].status = "thrown"
    /\ prev = next
    /\ Len(prev) > 0

(* C5: when every code of prev and of next lies in [1, 254), so does every *)
(* code of the string between returns.                                     *)
C5_ResultCodesInRange ==
    (ValidStamp(prev) /\ ValidStamp(next) /\ ret[1].status = "returned")
    => Valid(ret[1].result)

---------------------------------------------------------------------------
(* A caller's list: each new item takes between(left, right) of its two    *)
(* future neighbours; the stamps of the other items are not rewritten.     *)

InsertAt(l, i, s) == SubSeq(l, 1, i) \o <<s>> \o SubSeq(l, i + 1, Len(l))

(* Insert a new item between the items at positions i and i+1. *)
Insert(i) ==
    /\ Len(list) < MaxItems
    /\ i \in 1..(Len(list) - 1)
    /\ ~Throws(list[i], list[i + 1])
    /\ \E r0 \in Draws, r1 \in Draws, stream \in RandomStreams :
         list' = InsertAt(list, i,
                          between(list[i], list[i + 1], r0, r1, stream))
    /\ UNCHANGED <<prev, next, ret, rnd, codec, now, calls>>

InitList ==
    /\ \E a \in Stamps, b \in Stamps :
         /\ ValidStamp(a) /\ ValidStamp(b) /\ Less(a, b)
         /\ list = <<a, b>>
    /\ prev = <<>>
    /\ next = <<>>
    /\ ret = [c \in Callers |-> Idle]
    /\ rnd = NoRnd
    /\ codec = <<>>
    /\ now = 1
    /\ calls = <<>>

NextList == \E i \in 1..MaxItems : Insert(i)

SpecList == InitList /\ [][NextList]_vars

(* C2: starting from two distinct valid stamps in increasing order, after  *)
(* any sequence of insertions of between(left, right) for adjacent items   *)
(* the list of stamps is strictly increasing, hence without duplicates.    *)
C2_ListStrictlyIncreasing ==
    \A i \in 1..(Len(list) - 1) : Less(list[i], list[i + 1])

---------------------------------------------------------------------------
(* Two callers, with no state in common, call between on the same pair.    *)

SharedPairs ==
    { <<<<1>>, <<253>>>>, <<<<253>>, <<1>>>>, <<<<1, 2>>, <<2>>>>,
      <<<<1, 253>>, <<1, 253, 2>>>>, <<<<2, 1>>, <<2, 1>>>> }

InitTwo ==
    /\ \E pair \in SharedPairs :
         /\ prev = pair[1]
         /\ next = pair[2]
    /\ ret = [c \in Callers |-> Idle]
    /\ InitOthers

NextTwo == \E c \in Callers : Between(c)

SpecTwo == InitTwo /\ [][NextTwo]_vars

LastChars(s, n) == IF Len(s) < n THEN s ELSE SubSeq(s, Len(s) - n + 1, Len(s))

WithoutLast(s, n) == IF Len(s) < n THEN <<>> ELSE SubSeq(s, 1, Len(s) - n)

(* C9: two calls of between on the same pair that draw different random    *)
(* suffixes return different strings: both results have the same length    *)
(* and each ends with the suffix its call drew.  The two results are equal *)
(* only if every character drawn by the one call is the character drawn by *)
(* the other.                                                              *)
C9_DifferentSuffixDifferentResult ==
    (ret[1].status = "returned" /\ ret[2].status = "returned")
    => /\ Len(ret[1].result) = Len(ret[2].result)
       /\ \A c \in Callers :
            LastChars(ret[c].result, RANDOM_SUFFIX_LEN) = ret[c].suffix
       /\ ret[1].suffix # ret[2].suffix => ret[1].result # ret[2].result
       /\ ret[1].result = ret[2].result => ret[1].drawn = ret[2].drawn

C9_Witness ==
    /\ ret[1].status = "returned"
    /\ ret[2].status = "returned"
    /\ ret[1].suffix # ret[2].suffix
    /\ WithoutLast(ret[1].result, RANDOM_SUFFIX_LEN)
         = WithoutLast(ret[2].result, RANDOM_SUFFIX_LEN)
    /\ ret[1].result # ret[2].result

---------------------------------------------------------------------------
(* randomInt on its own *)

RandomInt ==
    /\ rnd.pc = "call"
    /\ \E r \in Draws :
         rnd' = [rnd EXCEPT !.pc = "done",
                            !.result = randomInt(rnd.min, rnd.max, r)]
    /\ UNCHANGED <<prev, next, ret, list, codec, now, calls>>

InitRand ==
    /\ \E a \in (-RandRange)..RandRange, b \in (-RandRange)..RandRange :
         /\ a <= b
         /\ rnd = [pc |-> "call", min |-> a, max |-> b, result |-> 0]
    /\ prev = <<>>
    /\ next = <<>>
    /\ ret = [c \in Callers |-> Idle]
    /\ list = <<>>
    /\ codec = <<>>
    /\ now = 1
    /\ calls = <<>>

NextRand == RandomInt

SpecRand == InitRand /\ [][NextRand]_vars

(* C10: for integers min <= max, randomInt(min, max) returns min when      *)
(* min = max, and otherwise an integer r with min <= r < max.              *)
C10_RandomIntInRange ==
    rnd.pc = "done"
    => /\ rnd.min = rnd.max => rnd.result = rnd.min
       /\ rnd.min < rnd.max => (rnd.min <= rnd.result /\ rnd.result < rnd.max)

C10_Witness ==
    /\ rnd.pc = "done"
    /\ rnd.min + 1 < rnd.max
    /\ rnd.min < rnd.result
    /\ rnd.result < rnd.max

---------------------------------------------------------------------------
(* start, end and from.  ELEN.encode is an imported function of which the  *)
(* code uses only its contract: x < y implies encode(x) < encode(y), and   *)
(* encode is injective.  codec holds the value encode returned for each    *)
(* number it was called on; on a new number it returns any string that     *)
(* keeps the contract.                                                     *)

Values == (-MaxTime)..MaxTime

EncStrings == StringsOver(EncCodes, EncLen) \ {<<>>}

(* key === undefined: a one-unit string that no caller passes *)
Undefined == <<NaN>>

CallerKeys == StringsOver(InputCodes, 1) \cup {Undefined}

(* what ELEN.encode(value) may return *)
Encodings(value) ==
    IF value \in DOMAIN codec
    THEN {codec[value]}
    ELSE {e \in EncStrings :
            \A u \in DOMAIN codec :
                /\ u < value => Less(codec[u], e)
                /\ value < u => Less(e, codec[u])}

(* from(value, key), where encoded is ELEN.encode(value) *)
from(encoded, key, stream) ==
    encoded \o (IF key = Undefined THEN RandomKey(stream) ELSE key)

Call(op, value, key) ==
    /\ Len(calls) < MaxCalls
    /\ \E e \in Encodings(value), stream \in RandomStreams :
         /\ codec' = [v \in DOMAIN codec \cup {value} |->
                         IF v = value THEN e ELSE codec[v]]
         /\ calls' = Append(calls, [op |-> op, value |-> value, time |-> now,
                                    stamp |-> from(e, key, stream)])
    /\ UNCHANGED <<prev, next, ret, list, rnd, now>>

End == Call("end", now, Undefined)

Start == Call("start", -now, Undefined)

From(value, key) == Call("from", value, key)

(* performance.now() advances *)
Tick ==
    /\ now < MaxTime
    /\ now' = now + 1
    /\ UNCHANGED <<prev, next, ret, list, rnd, codec, calls>>

InitClock ==
    /\ prev = <<>>
    /\ next = <<>>
    /\ ret = [c \in Callers |-> Idle]
    /\ InitOthers

NextClock ==
    \/ Tick
    \/ End
    \/ Start
    \/ \E value \in Values, key \in CallerKeys : From(value, key)

SpecClock == InitClock /\ [][NextClock]_vars

(* C6: for numbers x < y and any suffixes (given keys or random ones),     *)
(* from(x, k1) < from(y, k2), for any codec that keeps the contract.       *)
C6_FromPreservesOrder ==
    \A i \in DOMAIN calls, j \in DOMAIN calls :
        (calls[i].op = "from" /\ calls[j].op = "from"
            /\ calls[i].value < calls[j].value)
        => Less(calls[i].stamp, calls[j].stamp)

(* C7: when the time read strictly advances from one call to the next, the *)
(* stamps of end() increase and the stamps of start() decrease in call     *)
(* order.                                                                  *)
C7_StrictTimeOrdersStamps ==
    \A i \in DOMAIN calls, j \in DOMAIN calls :
        (i < j /\ calls[i].op = calls[j].op /\ calls[i].time < calls[j].time)
        => /\ calls[i].op = "end" => Less(calls[i].stamp, calls[j].stamp)
           /\ calls[i].op = "start" => Less(calls[j].stamp, calls[i].stamp)

(* C8: with a time source that never goes back (two calls may read the    *)
(* same time), every start() stamp sorts strictly before those of all      *)
(* earlier start() calls and every end() stamp strictly after those of all *)
(* earlier end() calls.  Stated here for calls whose stamps differ, so     *)
(* that a coincidence of all 16 random characters is not what refutes it.  *)
C8_CallOrderKept ==
    \A i \in DOMAIN calls, j \in DOMAIN calls :
        (i < j /\ calls[i].op = calls[j].op
            /\ calls[i].stamp # calls[j].stamp)
        => /\ calls[i].op = "end" => Less(calls[i].stamp, calls[j].stamp)
           /\ calls[i].op = "start" => Less(calls[j].stamp, calls[i].stamp)

---------------------------------------------------------------------------
(* between on a first argument that may be longer than the random suffix:  *)
(* at most one character followed by a run of CHAR_CODE_MIN.               *)

PadLens == {0} \cup (RANDOM_SUFFIX_LEN..(RANDOM_SUFFIX_LEN + MaxPad))

Padded(s, n) == s \o [j \in 1..n |-> CHAR_CODE_MIN]

InitLong ==
    /\ \E s \in StringsOver(InputCodes, 1), n \in PadLens :
         prev = Padded(s, n)
    /\ next \in Stamps
    /\ ret = [c \in Callers |-> Idle]
    /\ InitOthers

SpecLong == InitLong /\ [][NextBetween]_vars

PrefixLen == commonPrefixLen(prev, next)

ValidCall ==
    /\ ValidStamp(prev)
    /\ ValidStamp(next)
    /\ prev # next
    /\ ret[1].status = "returned"

C12_ResultLength ==
    ValidCall
    => /\ Len(ret[1].result) =
            PrefixLen + 1 + (IF Len(Lo) > PrefixLen + 1 THEN 1 ELSE 0)
              + RANDOM_SUFFIX_LEN
       /\ Len(ret[1].result) <= Len(Lo) + 1 + RANDOM_SUFFIX_LEN

C12_Witness ==
    /\ ValidCall
    /\ Len(Lo) > PrefixLen + RANDOM_SUFFIX_LEN + 1
    /\ Len(ret[1].result) = PrefixLen + 2 + RANDOM_SUFFIX_LEN

=============================================================================
